---- MODULE Spec2Model ----
(***************************************************************************)
(* Work in Taiwan Guide API (main.py, schemas.py).                         *)
(*                                                                         *)
(* The document store is four collections, each a sequence of documents    *)
(* in natural (insertion) order.  FastAPI runs the synchronous handlers    *)
(* on a thread pool, so requests of different clients interleave at the    *)
(* granularity of one store round trip.  Every handler but signup makes    *)
(* one round trip and is one action; signup makes two (find_one, then      *)
(* insert) and is two actions.                                             *)
(***************************************************************************)
EXTENDS Integers, Sequences, FiniteSets, TLC

VARIABLES db, user, step, progress, notification, nextOid, pc, local, resp, issued

vars == <<db, user, step, progress, notification, nextOid, pc, local, resp, issued>>

(***************************************************************************)
(* Bounds and input sets                                                   *)
(***************************************************************************)
\* number of documents the store may insert in one behaviour
MaxOid == 3

Clients == {"c1", "c2"}
Emails == {"a@tw", "b@tw"}
Passwords == {"pw1", "pw2"}
Salts == {"s1", "s2"}
UserIds == {"u1", "u2"}
StepKeys == {"a", "b"}
Keys == {"passport"}
Titles == {"T1"}
NewTitles == {"T2"}
Messages == {"m1"}
Times == {"t1", "t2"}

\* Python None in a field that otherwise holds a str
None == "None"

Names == {None, "Ann"}
DueDates == {None, "2025-01-01"}

\* Python values of the order field: an int, or None (Dict[str, Any] of update_step)
PyInt(n) == [type |-> "int", v |-> n]
PyNone == [type |-> "NoneType", v |-> 0]
OrderInts == {PyInt(n) : n \in 0..2}
OrderValues == OrderInts \cup {PyNone}

(***************************************************************************)
(* bson.ObjectId and its string form                                       *)
(***************************************************************************)
\* the ObjectId the store generates for its n-th insert
Oid(n) == [oid |-> n]

\* strings a client can send as an identifier: the 24-digit hex form of an
\* ObjectId (one the store generated or not), or text that is no such form
HexStrings == {[text |-> "hex", n |-> k] : k \in 1..(MaxOid + 1)}
BadStrings == {[text |-> "not-hex", n |-> 0]}
IdStrings == HexStrings \cup BadStrings

\* str(ObjectId): the 24-digit hex string of the id
Str(o) == [text |-> "hex", n |-> o.oid]

\* ObjectId.is_valid
IsValidObjectId(s) == s.text = "hex"

\* ObjectId(s), defined where IsValidObjectId(s); otherwise bson raises InvalidId
ObjectId(s) == [oid |-> s.n]

(***************************************************************************)
(* passlib CryptContext(schemes=["bcrypt"])                                *)
(***************************************************************************)
\* bcrypt digest of a password under a salt: one-way, never the plaintext
Digest(salt, password) == <<"bcrypt", salt, password>>

hash_password(salt, password) == [salt |-> salt, digest |-> Digest(salt, password)]

verify_password(plain, hashed) == hashed.digest = Digest(hashed.salt, plain)

(***************************************************************************)
(* Store operations on one collection (pymongo)                            *)
(***************************************************************************)
\* an equality filter {field: value, ...} matches a document holding each value
MatchesFilter(doc, filter) ==
    \A f \in DOMAIN filter : f \in DOMAIN doc /\ doc[f] = filter[f]

\* find_one(filter): the position of the first matching document, 0 for None
FindOne(coll, filter) ==
    LET hits == {i \in 1..Len(coll) : MatchesFilter(coll[i], filter)}
    IN IF hits = {} THEN 0 ELSE CHOOSE i \in hits : \A j \in hits : i <= j

\* find(filter): every matching document, in natural order
Find(coll, filter) == SelectSeq(coll, LAMBDA d : MatchesFilter(d, filter))

RemoveAt(s, i) == SubSeq(s, 1, i - 1) \o SubSeq(s, i + 1, Len(s))

\* "if db": the handle is taken to be truthy exactly when it is not None, as
\* "db is not None" of test_database has it
Available == db = "handle"

\* ---- responses ----
NoResponse == [op |-> "none", status |-> 0, raised |-> "", detail |-> "", body |-> <<>>]

\* a handler that returns normally
Return(op, body) ==
    [op |-> op, status |-> 200, raised |-> "", detail |-> "", body |-> body]

\* raise HTTPException(status_code, detail): the framework answers with that status
HTTPException(op, status_code, detail) ==
    [op |-> op, status |-> status_code, raised |-> "HTTPException",
     detail |-> detail, body |-> <<>>]

\* any other exception leaves the handler: the framework answers 500 Internal Server Error
Unhandled(op, exc) ==
    [op |-> op, status |-> 500, raised |-> exc,
     detail |-> "Internal Server Error", body |-> <<>>]

(***************************************************************************)
(* database.py: db, create_document, get_documents                         *)
(***************************************************************************)
\* create_document raises when the store handle is absent
create_document_raises == db = "None"

\* create_document on an available store: the document carries the model's
\* fields and the generated _id, and goes last in natural order
InsertOne(coll, fields) == Append(coll, [_id |-> Oid(nextOid)] @@ fields)

\* what create_document returns: the new identifier as a string
InsertedId == Str(Oid(nextOid))

\* get_documents(collection_name, filter)
get_documents(coll, filter) == Find(coll, filter)

(***************************************************************************)
(* Initial state                                                           *)
(***************************************************************************)
Init ==
    /\ db \in {"handle", "None"}
    /\ user = <<>>
    /\ step = <<>>
    /\ progress = <<>>
    /\ notification = <<>>
    /\ nextOid = 1
    /\ pc = [c \in Clients |-> "idle"]
    /\ local = [c \in Clients |-> <<>>]
    /\ resp = NoResponse
    /\ issued = {}

(***************************************************************************)
(* Auth                                                                    *)
(***************************************************************************)
AuthResponse(user_id, email, name, role) ==
    [user_id |-> user_id, email |-> email, name |-> name, role |-> role]

\* schemas.User as built by signup
NewUser(email, password_hash, name) ==
    [email |-> email, password_hash |-> password_hash, name |-> name,
     role |-> "user", preferences |-> <<>>]

\* mutant of existing_user: the lookup finds nobody
no_existing_user(email) == 0

\* db["user"].find_one({"email": email}) if db else None: a position in user, 0 for None
existing_user(email) ==
    IF Available THEN FindOne(user, [email |-> email]) ELSE 0

\* signup, first round trip: existing = db["user"].find_one({"email": ...}) if db else None
SignupFind(c, email, password, name) ==
    /\ pc[c] = "idle"
    /\ LET existing == existing_user(email)
       IN IF existing # 0
          THEN /\ resp' = HTTPException("signup", 400, "Email already registered")
               /\ UNCHANGED <<pc, local>>
          ELSE /\ pc' = [pc EXCEPT ![c] = "signup_create"]
               /\ local' = [local EXCEPT ![c] = [email |-> email, password |-> password, name |-> name]]
               /\ UNCHANGED resp
    /\ UNCHANGED <<db, user, step, progress, notification, nextOid, issued>>

\* signup, second round trip: hash_password, create_document("user", user), return
SignupCreate(c, salt) ==
    /\ pc[c] = "signup_create"
    /\ pc' = [pc EXCEPT ![c] = "idle"]
    /\ local' = [local EXCEPT ![c] = <<>>]
    /\ LET p == local[c]
           u == NewUser(p.email, hash_password(salt, p.password), p.name)
       IN IF create_document_raises
          THEN /\ resp' = Unhandled("signup", "Exception")
               /\ UNCHANGED <<user, nextOid, issued>>
          ELSE /\ nextOid <= MaxOid
               /\ user' = InsertOne(user, u)
               /\ nextOid' = nextOid + 1
               /\ resp' = Return("signup", AuthResponse(InsertedId, p.email, p.name, "user"))
               /\ issued' = issued \cup {[email |-> p.email, password |-> p.password, user_id |-> InsertedId]}
    /\ UNCHANGED <<db, step, progress, notification>>

\* login: one find_one, then verify_password
Login(email, password) ==
    /\ LET i == existing_user(email)
       IN resp' = IF i = 0
                  THEN HTTPException("login", 401, "Invalid credentials")
                  ELSE IF ~verify_password(password, user[i].password_hash)
                  THEN HTTPException("login", 401, "Invalid credentials")
                  ELSE Return("login", AuthResponse(Str(user[i]._id), user[i].email,
                                                       user[i].name, user[i].role))
    /\ UNCHANGED <<db, user, step, progress, notification, nextOid, pc, local, issued>>

(***************************************************************************)
(* Steps                                                                   *)
(***************************************************************************)
\* schemas.Step: the fields create_step is not given take their defaults
NewStep(key, title, order) ==
    [key |-> key, title |-> title, description |-> None, content |-> "",
     resources |-> <<>>, estimate_days |-> None, cost_estimate |-> None,
     order |-> PyInt(order)]

\* it["id"] = str(it.get("_id")); it.pop("_id", None)
StringId(doc) ==
    [f \in (DOMAIN doc \ {"_id"}) \cup {"id"} |->
        IF f = "id" THEN Str(doc._id) ELSE doc[f]]

\* key=lambda x: x.get("order", 0)
OrderKey(x) == IF "order" \in DOMAIN x THEN x["order"] ELSE PyInt(0)

\* list.sort compares keys with <, which raises TypeError unless both are ints;
\* with two or more items every item is compared at least once
SortRaises(items) ==
    /\ Len(items) >= 2
    /\ \E i \in 1..Len(items) : OrderKey(items[i]).type # "int"

\* y goes after every x with key(x) <= key(y): the sort is stable
RECURSIVE InsertSorted(_, _)
InsertSorted(sorted, y) ==
    IF sorted = <<>> THEN <<y>>
    ELSE IF OrderKey(y).v < OrderKey(Head(sorted)).v THEN <<y>> \o sorted
    ELSE <<Head(sorted)>> \o InsertSorted(Tail(sorted), y)

RECURSIVE SortPrefix(_, _)
SortPrefix(items, n) ==
    IF n = 0 THEN <<>> ELSE InsertSorted(SortPrefix(items, n - 1), items[n])

\* items.sort(key=...), defined where ~SortRaises(items)
SortByOrder(items) == SortPrefix(items, Len(items))

\* what list_steps answers on the current store
ListStepsResponse ==
    LET items == IF Available THEN get_documents(step, <<>>) ELSE <<>>
        shaped == [i \in 1..Len(items) |-> StringId(items[i])]
    IN IF SortRaises(shaped)
       THEN Unhandled("list_steps", "TypeError")
       ELSE Return("list_steps", SortByOrder(shaped))

list_steps ==
    /\ resp' = ListStepsResponse
    /\ UNCHANGED <<db, user, step, progress, notification, nextOid, pc, local, issued>>

create_step(key, title, order) ==
    /\ IF create_document_raises
       THEN /\ resp' = Unhandled("create_step", "Exception")
            /\ UNCHANGED <<step, nextOid>>
       ELSE /\ nextOid <= MaxOid
            /\ step' = InsertOne(step, NewStep(key, title, order))
            /\ nextOid' = nextOid + 1
            /\ resp' = Return("create_step", [id |-> InsertedId])
    /\ UNCHANGED <<db, user, progress, notification, pc, local, issued>>

\* mutant of SetFields: the document is replaced by the payload
ReplaceDocument(doc, payload) == payload @@ [_id |-> doc._id]

\* {"$set": payload} on one document: field-level overwrite
SetFields(doc, payload) == payload @@ doc

update_step(step_id, payload) ==
    /\ IF db = "None"
       THEN /\ resp' = HTTPException("update_step", 500, "Database not available")
            /\ UNCHANGED step
       ELSE IF ~IsValidObjectId(step_id)
       THEN /\ resp' = Unhandled("update_step", "InvalidId")
            /\ UNCHANGED step
       ELSE LET i == FindOne(step, [_id |-> ObjectId(step_id)])
            IN IF i = 0
               THEN /\ resp' = HTTPException("update_step", 404, "Step not found")
                    /\ UNCHANGED step
               ELSE /\ step' = [step EXCEPT ![i] = SetFields(step[i], payload)]
                    /\ resp' = Return("update_step", [updated |-> TRUE])
    /\ UNCHANGED <<db, user, progress, notification, nextOid, pc, local, issued>>

delete_step(step_id) ==
    /\ IF db = "None"
       THEN /\ resp' = HTTPException("delete_step", 500, "Database not available")
            /\ UNCHANGED step
       ELSE IF ~IsValidObjectId(step_id)
       THEN /\ resp' = Unhandled("delete_step", "InvalidId")
            /\ UNCHANGED step
       ELSE LET i == FindOne(step, [_id |-> ObjectId(step_id)])
            IN IF i = 0
               THEN /\ resp' = HTTPException("delete_step", 404, "Step not found")
                    /\ UNCHANGED step
               ELSE /\ step' = RemoveAt(step, i)
                    /\ resp' = Return("delete_step", [deleted |-> TRUE])
    /\ UNCHANGED <<db, user, progress, notification, nextOid, pc, local, issued>>

(***************************************************************************)
(* Progress                                                                *)
(***************************************************************************)
\* Dict[str, bool] over the step keys
ItemMaps == UNION {[K -> BOOLEAN] : K \in SUBSET StepKeys}

\* what get_progress answers on the current store
GetProgressResponse(user_id) ==
    IF db = "None" THEN Return("get_progress", [items |-> <<>>])
    ELSE LET i == FindOne(progress, [user_id |-> user_id])
         IN IF i = 0 THEN Return("get_progress", [items |-> <<>>])
            ELSE Return("get_progress",
                        [items |-> IF "items" \in DOMAIN progress[i]
                                   THEN progress[i]["items"] ELSE <<>>])

get_progress(user_id) ==
    /\ resp' = GetProgressResponse(user_id)
    /\ UNCHANGED <<db, user, step, progress, notification, nextOid, pc, local, issued>>

\* mutant of Upsert: the new items are merged into the stored map
UpsertMergingItems(coll, user_id, fields) ==
    LET i == FindOne(coll, [user_id |-> user_id])
    IN IF i = 0
       THEN InsertOne(coll, fields @@ [user_id |-> user_id])
       ELSE [coll EXCEPT ![i] = SetFields(coll[i],
                [fields EXCEPT !["items"] = fields["items"] @@ coll[i]["items"]])]

\* mutant of Upsert: insert_one instead of an upsert
InsertAlways(coll, user_id, fields) == InsertOne(coll, fields @@ [user_id |-> user_id])

\* update_one({"user_id": u}, {"$set": {"items": ..., "updated_at": ...}}, upsert=True):
\* the first match is updated; with no match the filter's fields and the $set
\* fields are inserted as one new document
Upsert(coll, user_id, fields) ==
    LET i == FindOne(coll, [user_id |-> user_id])
    IN IF i = 0
       THEN InsertOne(coll, fields @@ [user_id |-> user_id])
       ELSE [coll EXCEPT ![i] = SetFields(coll[i], fields)]

set_progress(user_id, items, utcnow) ==
    /\ IF db = "None"
       THEN /\ resp' = HTTPException("set_progress", 500, "Database not available")
            /\ UNCHANGED <<progress, nextOid>>
       ELSE LET inserts == FindOne(progress, [user_id |-> user_id]) = 0
            IN /\ inserts => nextOid <= MaxOid
               /\ progress' = Upsert(progress, user_id, [items |-> items, updated_at |-> utcnow])
               /\ nextOid' = IF inserts THEN nextOid + 1 ELSE nextOid
               /\ resp' = Return("set_progress", [saved |-> TRUE])
    /\ UNCHANGED <<db, user, step, notification, pc, local, issued>>

(***************************************************************************)
(* Notifications                                                           *)
(***************************************************************************)
\* schemas.Notification as built by create_notification
NewNotification(user_id, message, due_date) ==
    [user_id |-> user_id, type |-> "reminder", message |-> message, due_date |-> due_date]

create_notification(user_id, message, due_date) ==
    /\ IF create_document_raises
       THEN /\ resp' = Unhandled("create_notification", "Exception")
            /\ UNCHANGED <<notification, nextOid>>
       ELSE /\ nextOid <= MaxOid
            /\ notification' = InsertOne(notification, NewNotification(user_id, message, due_date))
            /\ nextOid' = nextOid + 1
            /\ resp' = Return("create_notification", [id |-> InsertedId])
    /\ UNCHANGED <<db, user, step, progress, pc, local, issued>>

\* mutant of ListNotificationsResponse: the filter on user_id is dropped
ListAllNotifications(user_id) ==
    LET items == IF Available THEN get_documents(notification, <<>>) ELSE <<>>
    IN Return("list_notifications", [i \in 1..Len(items) |-> StringId(items[i])])

\* what list_notifications answers on the current store
ListNotificationsResponse(user_id) ==
    LET items == IF Available
                 THEN get_documents(notification, [user_id |-> user_id])
                 ELSE <<>>
    IN Return("list_notifications", [i \in 1..Len(items) |-> StringId(items[i])])

list_notifications(user_id) ==
    /\ resp' = ListNotificationsResponse(user_id)
    /\ UNCHANGED <<db, user, step, progress, notification, nextOid, pc, local, issued>>

(***************************************************************************)
(* Specifications                                                          *)
(***************************************************************************)
\* payloads of PUT /api/steps/{id}: a non-empty partial field mapping
StepPayloads ==
    {[title |-> t] : t \in NewTitles}
    \cup {[order |-> o] : o \in OrderValues}
    \cup {[title |-> t, order |-> o] : t \in NewTitles, o \in OrderValues}

AuthNext ==
    \/ \E c \in Clients, e \in Emails, p \in Passwords, n \in Names : SignupFind(c, e, p, n)
    \/ \E c \in Clients, s \in Salts : SignupCreate(c, s)
    \/ \E e \in Emails, p \in Passwords : Login(e, p)

StepNext ==
    \/ list_steps
    \/ \E k \in Keys, t \in Titles, o \in 0..2 : create_step(k, t, o)
    \/ \E id \in IdStrings, payload \in StepPayloads : update_step(id, payload)
    \/ \E id \in IdStrings : delete_step(id)

ProgressNext ==
    \/ \E u \in UserIds : get_progress(u)
    \/ \E u \in UserIds, m \in ItemMaps, t \in Times : set_progress(u, m, t)

NotificationNext ==
    \/ \E u \in UserIds, m \in Messages, d \in DueDates : create_notification(u, m, d)
    \/ \E u \in UserIds : list_notifications(u)

\* every endpoint together, over one value of each input the endpoints'
\* interplay does not depend on
Next ==
    \/ SignupFind("c1", "a@tw", "pw1", None)
    \/ SignupCreate("c1", "s1")
    \/ Login("a@tw", "pw1")
    \/ list_steps
    \/ create_step("passport", "T1", 1)
    \/ \E id \in IdStrings, payload \in {[title |-> "T2"], [title |-> "T2", order |-> PyInt(0)]} :
          update_step(id, payload)
    \/ \E id \in IdStrings : delete_step(id)
    \/ get_progress("u1")
    \/ \E m \in {<<>>, [a |-> TRUE]} : set_progress("u1", m, "t1")
    \/ \E u \in UserIds : create_notification(u, "m1", None)
    \/ \E u \in UserIds : list_notifications(u)

Spec == Init /\ [][Next]_vars
AuthSpec == Init /\ [][AuthNext]_vars
StepSpec == Init /\ [][StepNext]_vars
ProgressSpec == Init /\ [][ProgressNext]_vars
NotificationSpec == Init /\ [][NotificationNext]_vars

(***************************************************************************)
(* Properties                                                              *)
(***************************************************************************)
HasEmail(e) == \E i \in 1..Len(user) : user[i].email = e

\* C1: in every reachable state no two User documents have the same email,
\* under any interleaving of signups (find_one, then a separate insert).
C1_UniqueEmails ==
    \A i, j \in 1..Len(user) : i # j => user[i].email # user[j].email

\* C2: with the store available, a signup for an email no User has goes on to
\* insert exactly one User (appended, fresh _id) and returns its user_id with
\* status 200; a signup for an email some User already has (a signup run after
\* the first one returned), whatever its password, fails with 400 and leaves the
\* user collection unchanged.
C2_SignupTwice ==
    [][/\ \A c \in Clients, e \in Emails, p \in Passwords, n \in Names :
            (Available /\ SignupFind(c, e, p, n)) =>
                IF HasEmail(e)
                THEN /\ resp' = HTTPException("signup", 400, "Email already registered")
                     /\ user' = user
                     /\ pc'[c] = "idle"
                ELSE /\ pc'[c] = "signup_create"
                     /\ local'[c].email = e
                     /\ local'[c].password = p
                     /\ user' = user
       /\ \A c \in Clients, s \in Salts :
            (Available /\ SignupCreate(c, s)) =>
                /\ Len(user') = Len(user) + 1
                /\ SubSeq(user', 1, Len(user)) = user
                /\ user'[Len(user')].email = local[c].email
                /\ \A i \in 1..Len(user) : user[i]._id # user'[Len(user')]._id
                /\ resp'.op = "signup"
                /\ resp'.status = 200
                /\ resp'.body.user_id = Str(user'[Len(user')]._id)
                /\ resp'.body.email = local[c].email
      ]_vars

\* a second signup for the one registered email was rejected
C2_Witness ==
    /\ Available
    /\ Len(user) = 1
    /\ \E r \in issued : r.email = user[1].email
    /\ resp = HTTPException("signup", 400, "Email already registered")

\* C3: a login with a pair (email, password) that a signup returned 200 for
\* succeeds and returns the user_id that signup returned; a login with any other
\* pair fails with 401; login never changes the user collection.
C3_LoginRoundTrip ==
    [][\A e \in Emails, p \in Passwords :
         Login(e, p) =>
            /\ user' = user
            /\ IF \E r \in issued : r.email = e /\ r.password = p
               THEN /\ resp'.op = "login"
                    /\ resp'.status = 200
                    /\ \A r \in issued :
                         (r.email = e /\ r.password = p) => resp'.body.user_id = r.user_id
               ELSE resp' = HTTPException("login", 401, "Invalid credentials")
      ]_vars

\* C4: right after a successful set_progress(u, m), get_progress(u) answers
\* exactly m (same keys, same values: nothing of an earlier map survives), and
\* it keeps answering that until the next set_progress for u.
C4_ProgressRoundTrip ==
    [][\A u \in UserIds :
         /\ \A m \in ItemMaps, t \in Times :
              (Available /\ set_progress(u, m, t)) =>
                 /\ resp' = Return("set_progress", [saved |-> TRUE])
                 /\ GetProgressResponse(u)' = Return("get_progress", [items |-> m])
                 /\ DOMAIN (GetProgressResponse(u)').body.items = DOMAIN m
         /\ (~ \E m \in ItemMaps, t \in Times : set_progress(u, m, t)) =>
                 GetProgressResponse(u)' = GetProgressResponse(u)
         /\ get_progress(u) => resp' = GetProgressResponse(u)
      ]_vars

\* a map with two keys was replaced by a map with one, and read back
C4_Witness ==
    /\ resp = Return("get_progress", [items |-> [a |-> TRUE]])
    /\ \E i \in 1..Len(progress) :
         /\ progress[i]["items"] = [a |-> TRUE]
         /\ progress[i].updated_at = "t2"
    /\ Len(progress) = 2

OtherUsers(coll, u) == SelectSeq(coll, LAMBDA d : d.user_id # u)

\* C5: the progress collection never holds two documents with the same
\* user_id, and a set_progress for u leaves the documents of every other user
\* as they were.
C5_OneProgressPerUser ==
    [][/\ \A i, j \in 1..Len(progress') :
            i # j => progress'[i].user_id # progress'[j].user_id
       /\ \A u \in UserIds, m \in ItemMaps, t \in Times :
            set_progress(u, m, t) => OtherUsers(progress, u)' = OtherUsers(progress, u)
      ]_vars

\* both users have a document and the first user's was overwritten last
C5_Witness ==
    /\ Len(progress) = 2
    /\ progress[1].updated_at = "t2"
    /\ progress[2].updated_at = "t1"
    /\ progress[1]["items"] # progress[2]["items"]
    /\ resp = Return("set_progress", [saved |-> TRUE])

\* C6: with the store handle absent no handler ends in an unhandled exception:
\* update_step, delete_step and set_progress answer 500 "Database not
\* available", get_progress answers an empty items map, and signup, create_step
\* and create_notification answer with an HTTPException of their own.
C6_AbsentStoreHandled ==
    db = "None" =>
        /\ resp.raised \in {"", "HTTPException"}
        /\ resp.op \in {"update_step", "delete_step", "set_progress"} =>
              resp = HTTPException(resp.op, 500, "Database not available")
        /\ resp.op = "get_progress" => resp = Return("get_progress", [items |-> <<>>])
        /\ resp.op \in {"signup", "create_step", "create_notification"} =>
              resp.raised = "HTTPException"

\* the identifier string matches a stored Step
Matches(id) == \E i \in 1..Len(step) : Str(step[i]._id) = id

\* C7: with the store available, update_step and delete_step on an identifier
\* that matches no stored Step answer 404 and leave the step collection as it
\* was; delete_step on a stored Step removes exactly that document, after
\* which the identifier matches nothing.
C7_NotFoundBoundary ==
    [][\A id \in IdStrings :
         /\ \A payload \in StepPayloads :
              (Available /\ ~Matches(id) /\ update_step(id, payload)) =>
                 /\ resp' = HTTPException("update_step", 404, "Step not found")
                 /\ step' = step
         /\ (Available /\ ~Matches(id) /\ delete_step(id)) =>
                 /\ resp' = HTTPException("delete_step", 404, "Step not found")
                 /\ step' = step
         /\ (Available /\ Matches(id) /\ delete_step(id)) =>
                 /\ resp' = Return("delete_step", [deleted |-> TRUE])
                 /\ Len(step') = Len(step) - 1
                 /\ ~Matches(id)'
                 /\ \A i \in 1..Len(step) :
                      Str(step[i]._id) # id => \E j \in 1..Len(step') : step'[j] = step[i]
      ]_vars

\* the response lists each stored Step once, _id replaced by the string id
ListsStoredSteps(body) ==
    /\ Len(body) = Len(step)
    /\ \A i \in 1..Len(step) : \E j \in 1..Len(body) : body[j] = StringId(step[i])
    /\ \A j \in 1..Len(body) : "_id" \notin DOMAIN body[j]

\* C8: with the store available, list_steps answers with exactly the stored
\* Steps, in non-decreasing order of their order value.
C8_ListStepsSorted ==
    Available =>
        /\ ListStepsResponse.status = 200
        /\ ListsStoredSteps(ListStepsResponse.body)
        /\ \A i, j \in 1..Len(ListStepsResponse.body) :
             i < j => OrderKey(ListStepsResponse.body[i]).v <= OrderKey(ListStepsResponse.body[j]).v

\* C9: create_notification(u, ...) appends one notification of type "reminder"
\* to what list_notifications(u) answers and changes no other user's list; a
\* list for u holds only notifications of u; no step of any endpoint changes
\* or removes a stored Notification.
C9_NotificationScoping ==
    [][/\ \A u \in UserIds, m \in Messages, d \in DueDates :
            (Available /\ create_notification(u, m, d)) =>
               /\ Len(ListNotificationsResponse(u)'.body) = Len(ListNotificationsResponse(u).body) + 1
               /\ \A i \in 1..Len(ListNotificationsResponse(u).body) :
                    ListNotificationsResponse(u)'.body[i] = ListNotificationsResponse(u).body[i]
               /\ ListNotificationsResponse(u)'.body[Len(ListNotificationsResponse(u)'.body)]
                    = [id |-> resp'.body.id, user_id |-> u, type |-> "reminder",
                       message |-> m, due_date |-> d]
               /\ \A u2 \in UserIds \ {u} :
                    ListNotificationsResponse(u2)' = ListNotificationsResponse(u2)
       /\ \A u \in UserIds :
            /\ \A i \in 1..Len(ListNotificationsResponse(u)'.body) :
                 ListNotificationsResponse(u)'.body[i].user_id = u
            /\ Len(ListNotificationsResponse(u)'.body)
                 = Cardinality({i \in 1..Len(notification') : notification'[i].user_id = u})
            /\ list_notifications(u) => resp' = ListNotificationsResponse(u)
       /\ Len(notification') >= Len(notification)
       /\ \A i \in 1..Len(notification) : notification'[i] = notification[i]
       /\ \A i \in 1..Len(notification') : notification'[i].type = "reminder"
       /\ (~ \E u \in UserIds, m \in Messages, d \in DueDates : create_notification(u, m, d)) =>
            notification' = notification
      ]_vars

\* both users have notifications and a list for one of them was answered
C9_Witness ==
    /\ Len(notification) = 3
    /\ \E i, j \in 1..Len(notification) : notification[i].user_id # notification[j].user_id
    /\ resp.op = "list_notifications"
    /\ Len(resp.body) = 1

\* C10: a successful update_step(id, payload) sets the payload's fields on the
\* Step with that identifier, keeps that Step's other fields, keeps every
\* other Step and the number of Steps, and leaves the user, progress and
\* notification collections unchanged.
C10_UpdateStepFrame ==
    [][\A id \in IdStrings, payload \in StepPayloads :
         (resp'.status = 200 /\ update_step(id, payload)) =>
            /\ Len(step') = Len(step)
            /\ \E i \in 1..Len(step) :
                 /\ Str(step[i]._id) = id
                 /\ DOMAIN step'[i] = DOMAIN step[i] \cup DOMAIN payload
                 /\ \A f \in DOMAIN payload : step'[i][f] = payload[f]
                 /\ \A f \in DOMAIN step[i] \ DOMAIN payload : step'[i][f] = step[i][f]
                 /\ \A j \in 1..Len(step) : j # i => step'[j] = step[j]
            /\ user' = user
            /\ progress' = progress
            /\ notification' = notification
      ]_vars

\* a Step's title was updated and its order kept, beside a stored User and a
\* stored Notification
C10_Witness ==
    /\ resp = Return("update_step", [updated |-> TRUE])
    /\ Len(user) = 1
    /\ Len(notification) = 1
    /\ Len(step) = 1
    /\ step[1].title = "T2"
    /\ step[1].order = PyInt(1)
    /\ step[1].key = "passport"

====
